---- MODULE Spec2Model ----
(***************************************************************************)
(* Model of src/src/travel_planner_system.py: the three stage agents       *)
(* (ResearchAgent, PlanningAgent, PersonalizationAgent), the timing        *)
(* wrapper BaseAgent.process and TravelPlanningOrchestrator.plan_trip.     *)
(*                                                                         *)
(* Python values are records: a str is [str |-> s], None is                *)
(* [none |-> TRUE], a list is [list |-> <<...>>], a one-key dict is        *)
(* [key |-> k, val |-> v]; larger dicts are functions from their keys.     *)
(* The external providers are the environment: each provider call either   *)
(* answers with a text or raises.                                          *)
(***************************************************************************)
EXTENDS Integers, Sequences, FiniteSets, TLC

\* ---------------------------------------------------------------- bounds
\* Largest wall-clock duration (in clock ticks) of one process invocation.
MaxElapsed == 1
\* Number of process calls a caller makes directly on the agents of one
\* orchestrator.
MaxCalls == 2

\* ---------------------------------------------------------------- values
Str(s) == [str |-> s]
NoneVal == [none |-> TRUE]
List(q) == [list |-> q]
Dict1(k, v) == [key |-> k, val |-> v]

Agents == {"research", "planning", "personalization"}

ResearchCalls == <<"weather", "events", "attractions", "accommodation", "transport", "synthesis">>
PlanningCalls == <<"generate_itinerary", "optimize_logistics", "analyze_costs">>
PersonalizationCalls == <<"personalize", "contextual_recommendations">>
ProviderCalls == ResearchCalls \o PlanningCalls \o PersonalizationCalls
Range(q) == {q[i] : i \in 1..Len(q)}
CallNames == Range(ProviderCalls)

\* The keys this orchestrator was constructed with, and the key another
\* orchestrator of the same process may be constructed with.
OwnKeys ==
    [openai |-> Str("openai-key"), anthropic |-> Str("anthropic-key"),
     google |-> Str("google-key")]
OtherGoogleKeys == {Str("other-google-key")}

\* The text a provider answers with when the call succeeds.
ResponseText(call) == Str(call \o " response")

\* The fixed strings the except-branches substitute.
WeatherUnavailable == Str("Weather information unavailable")
EventsUnavailable == Str("Events information unavailable")
AttractionsUnavailable == Str("Attractions information unavailable")
AccommodationUnavailable == Str("Accommodation information unavailable")
TransportUnavailable == Str("Transport information unavailable")
SynthesisUnavailable == Str("Synthesis unavailable")
ItineraryFailed == Str("Itinerary generation failed")
CostAnalysisUnavailable == Str("Cost analysis unavailable")

\* ------------------------------------------------------ TravelConstraints
FieldNames == {"total_budget_usd", "duration_days", "traveler_count", "preferences",
               "must_visit", "avoid", "travel_style"}
RequiredFields == {"total_budget_usd", "duration_days", "traveler_count", "preferences"}

MkConstraints(budget, days, travelers, prefs) ==
    [total_budget_usd |-> budget, duration_days |-> days, traveler_count |-> travelers,
     preferences |-> prefs, must_visit |-> NoneVal, avoid |-> NoneVal,
     travel_style |-> Str("balanced")]

SamplePreferences == List(<<"culture", "food">>)

\* The constraints the caller may pass: the test fixture, and one violation of
\* each data-model invariant (the dataclass itself accepts every one of them).
ValidConstraints == MkConstraints(1500, 7, 2, SamplePreferences)
ConstraintInputs ==
    { ValidConstraints,
      MkConstraints(-5, 7, 2, SamplePreferences),
      MkConstraints(1500, 0, 2, SamplePreferences),
      MkConstraints(1500, 7, 0, SamplePreferences),
      MkConstraints(1500, 7, 2, NoneVal) }

\* The destination of the test and of the example, and another one.
Destinations == {"Georgia", "Tbilisi"}

\* dataclasses.asdict: the mapping from every field name to the field's value.
asdict(c) == [f \in FieldNames |-> c[f]]

\* TravelConstraints(**d) raises TypeError on an unknown keyword and on a
\* missing field that has no default.
ConstructorRaises(d) == ~(RequiredFields \subseteq DOMAIN d /\ DOMAIN d \subseteq FieldNames)

TravelConstraints(d) ==
    [f \in FieldNames |->
        IF f \in DOMAIN d THEN d[f]
        ELSE IF f = "travel_style" THEN Str("balanced") ELSE NoneVal]

\* ', '.join(x) raises TypeError unless x is a list (of strings).
JoinRaises(prefs) == "list" \notin DOMAIN prefs

\* preferences[:n]
Take(q, n) == SubSeq(q, 1, IF Len(q) < n THEN Len(q) ELSE n)

\* p / q rounded to the nearest integer, ties to even, as the format
\* specification :.0f prints it (q # 0).
RoundHalfEven(p, q) ==
    LET pp == IF q < 0 THEN -p ELSE p
        qq == IF q < 0 THEN -q ELSE q
        fl == pp \div qq
        r == pp % qq
    IN  IF 2 * r < qq THEN fl
        ELSE IF 2 * r > qq THEN fl + 1
        ELSE IF fl % 2 = 0 THEN fl ELSE fl + 1

\* budget_per_night = total_budget_usd * 0.3 / duration_days, printed :.0f
BudgetPerNight(c) == RoundHalfEven(3 * c.total_budget_usd, 10 * c.duration_days)

\* sep.join(q)
RECURSIVE Join(_, _)
Join(q, sep) ==
    IF Len(q) = 0 THEN ""
    ELSE IF Len(q) = 1 THEN q[1]
    ELSE q[1] \o sep \o Join(Tail(q), sep)

\* x or default: None and the empty list are falsy.
OrDefault(x, default) ==
    IF x = NoneVal \/ x = List(<<>>) THEN default ELSE x

\* The empty dict {}.
EmptyDict == [k \in {} |-> NoneVal]

\* json.dumps(x, indent=2): the JSON text of x.
JsonDumps(x) == [json |-> x]

\* ----------------------------------------------------------------- state
VARIABLES
    entry,              \* the call in progress: "none", "plan_trip" or "process"
    patched,            \* TRUE when the three agents' process is patched by a mock
    pc,                 \* position of the caller's call
    destination,        \* plan_trip's destination argument
    constraints,        \* plan_trip's constraints argument
    stage,              \* the agent whose process is in progress, or "none"
    step,               \* position inside that process
    input_data,         \* the active process's input mapping
    agent_constraints,  \* _process_internal's local constraints object
    sub,                \* _process_internal's sub-results, by local variable name
    start_time,         \* process's local start_time
    now,                \* the clock time.time() reads
    processing_time,    \* each agent's self.processing_time
    ret,                \* what the last completed process returned
    research_output,    \* plan_trip's locals
    planning_output,
    personalization_output,
    research_input,     \* the input mappings plan_trip builds
    planning_input,
    personalization_input,
    result,             \* what the caller's call returned
    raised,             \* the exception that reached the caller, or "none"
    call_log,           \* the provider calls issued during the call, with their prompts
    failed,             \* the provider calls that raised during the call
    stage_log,          \* process invocations and returns during the call
    calls,              \* number of calls the caller has made
    genai_api_key,      \* the key genai.configure last set for the whole module
    gemini_client_key   \* the key self.model's client was created with, once created

vars == <<entry, patched, pc, destination, constraints, stage, step, input_data,
          agent_constraints, sub, start_time, now, processing_time, ret,
          research_output, planning_output, personalization_output,
          research_input, planning_input, personalization_input,
          result, raised, call_log, failed, stage_log, calls,
          genai_api_key, gemini_client_key>>

SubNames == {"weather_info", "local_events", "attractions", "accommodation_info",
             "transport_info", "research_summary", "itinerary", "optimized_itinerary",
             "cost_analysis", "personalized", "enhanced"}

NoSub == [n \in SubNames |-> NoneVal]

\* BaseAgent.__init__ sets processing_time to 0.0; PersonalizationAgent.__init__
\* configures genai with the orchestrator's google key and creates the model,
\* which has no client yet; nothing has been called yet.
Init ==
    /\ entry = "none"
    /\ patched = FALSE
    /\ pc = "idle"
    /\ destination = NoneVal
    /\ constraints = NoneVal
    /\ stage = "none"
    /\ step = "none"
    /\ input_data = NoneVal
    /\ agent_constraints = NoneVal
    /\ sub = NoSub
    /\ start_time = 0
    /\ now = 0
    /\ processing_time = [a \in Agents |-> 0]
    /\ ret = NoneVal
    /\ research_output = NoneVal
    /\ planning_output = NoneVal
    /\ personalization_output = NoneVal
    /\ research_input = NoneVal
    /\ planning_input = NoneVal
    /\ personalization_input = NoneVal
    /\ result = NoneVal
    /\ raised = "none"
    /\ call_log = <<>>
    /\ failed = {}
    /\ stage_log = <<>>
    /\ calls = 0
    /\ genai_api_key = OwnKeys.google
    /\ gemini_client_key = NoneVal

\* ------------------------------------------------------------- helpers
\* An exception leaves process and, plan_trip having no handler, the call.
Raise(exc) ==
    /\ raised' = exc
    /\ stage_log' = Append(stage_log, [ev |-> "raise", agent |-> stage])
    /\ stage' = "none"
    /\ step' = "none"
    /\ pc' = "raised"

\* The key a request of the sub-call is sent with: the research and planning
\* clients hold the key they were constructed with; self.model was given no
\* key, and its client, created on the first generate_content, takes the key
\* genai is configured with at that moment.
KeyUsed(call) ==
    IF call \in Range(ResearchCalls) THEN OwnKeys.openai
    ELSE IF call \in Range(PlanningCalls) THEN OwnKeys.anthropic
    ELSE IF gemini_client_key = NoneVal THEN genai_api_key
    ELSE gemini_client_key

BindClient(call) ==
    gemini_client_key' = IF call \in Range(PersonalizationCalls) THEN KeyUsed(call)
                         ELSE gemini_client_key

\* One request to the provider: it answers (ok) or raises (~ok).
Issue(call, prompt, ok) ==
    /\ call_log' = Append(call_log, [call |-> call, prompt |-> prompt,
                                      api_key |-> KeyUsed(call)])
    /\ failed' = IF ok THEN failed ELSE failed \cup {call}
    /\ BindClient(call)

\* await agent.process(input): control enters the agent.
Invoke(agent, input, log) ==
    /\ stage' = agent
    /\ step' = "enter"
    /\ input_data' = input
    /\ stage_log' = Append(log, [ev |-> "invoke", agent |-> agent])

\* process returns value v to its caller; a direct caller is then done.
Return(v) ==
    /\ ret' = v
    /\ stage_log' = Append(stage_log, [ev |-> "return", agent |-> stage])
    /\ stage' = "none"
    /\ step' = "none"
    /\ IF entry = "process"
       THEN pc' = "done" /\ result' = v
       ELSE UNCHANGED <<pc, result>>

\* self.processing_time = time.time() - start_time, d ticks after the clock
\* was last read.
RecordTime(agent, d) ==
    /\ now' = now + d
    /\ processing_time' = [processing_time EXCEPT ![agent] = (now + d) - start_time]

\* The caller starts a call: the previous call's locals and results are
\* gone, the agents' processing_time stays. The clock is read relative to
\* the start of the call.
Fresh ==
    /\ pc \in {"idle", "done", "raised"}
    /\ calls < MaxCalls
    /\ calls' = calls + 1
    /\ now' = 0
    /\ start_time' = 0
    /\ sub' = NoSub
    /\ agent_constraints' = NoneVal
    /\ ret' = NoneVal
    /\ research_output' = NoneVal
    /\ planning_output' = NoneVal
    /\ personalization_output' = NoneVal
    /\ result' = NoneVal
    /\ raised' = "none"
    /\ call_log' = <<>>
    /\ failed' = {}
    /\ UNCHANGED <<genai_api_key, gemini_client_key>>

planLocals == <<research_output, planning_output, personalization_output,
                research_input, planning_input, personalization_input>>
callArgs == <<entry, patched, destination, constraints, calls, genai_api_key>>

\* What a step inside _process_internal never touches.
InStage == UNCHANGED <<callArgs, planLocals, input_data, start_time, now,
                       processing_time, ret, result>>
\* A sub-call that ran to its return statement.
SubCallDone(next) ==
    /\ step' = next
    /\ InStage
    /\ UNCHANGED <<agent_constraints, pc, stage, raised, stage_log>>
\* A step that raised before it issued any provider call.
Raised(exc) ==
    /\ Raise(exc)
    /\ InStage
    /\ UNCHANGED <<agent_constraints, sub, call_log, failed,
                   gemini_client_key>>

\* ------------------------------------------------------ ResearchAgent
\* process line 124, then _process_internal lines 141-142.
research_enter ==
    /\ stage = "research" /\ step = "enter" /\ ~patched
    /\ start_time' = now
    /\ UNCHANGED <<callArgs, planLocals, input_data, now, processing_time, ret, result,
                   sub, call_log, failed,
                   gemini_client_key>>
    /\ IF "destination" \notin DOMAIN input_data \/ "constraints" \notin DOMAIN input_data
       THEN Raise("KeyError") /\ UNCHANGED agent_constraints
       ELSE IF ConstructorRaises(input_data.constraints)
       THEN Raise("TypeError") /\ UNCHANGED agent_constraints
       ELSE /\ agent_constraints' = TravelConstraints(input_data.constraints)
            /\ step' = "weather"
            /\ UNCHANGED <<pc, stage, raised, stage_log>>

WeatherInfo(ok) ==
    Dict1("weather_summary", IF ok THEN ResponseText("weather") ELSE WeatherUnavailable)

\* Mutant: the except-branch lets the provider's error out of the stage.
get_weather_info_reraise(ok) ==
    /\ stage = "research" /\ step = "weather"
    /\ Issue("weather", [destination |-> input_data.destination,
                         duration |-> agent_constraints.duration_days], ok)
    /\ InStage
    /\ UNCHANGED agent_constraints
    /\ IF ok
       THEN /\ sub' = [sub EXCEPT !.weather_info = WeatherInfo(ok)]
            /\ step' = "events"
            /\ UNCHANGED <<pc, stage, raised, stage_log>>
       ELSE /\ Raise("ProviderError")
            /\ UNCHANGED sub

get_weather_info(ok) ==
    /\ stage = "research" /\ step = "weather"
    /\ Issue("weather", [destination |-> input_data.destination,
                         duration |-> agent_constraints.duration_days], ok)
    /\ sub' = [sub EXCEPT !.weather_info = WeatherInfo(ok)]
    /\ SubCallDone("events")

LocalEvents(ok) ==
    Dict1("events", IF ok THEN ResponseText("events") ELSE EventsUnavailable)

\* Mutant: a failed request is sent again.
get_local_events_retry(ok) ==
    /\ stage = "research" /\ step = "events"
    /\ Issue("events", [destination |-> input_data.destination], ok)
    /\ sub' = [sub EXCEPT !.local_events = LocalEvents(ok)]
    /\ SubCallDone(IF ok THEN "attractions" ELSE "events")

get_local_events(ok) ==
    /\ stage = "research" /\ step = "events"
    /\ Issue("events", [destination |-> input_data.destination], ok)
    /\ sub' = [sub EXCEPT !.local_events = LocalEvents(ok)]
    /\ SubCallDone("attractions")

\* Mutant: the except-branch substitutes another sub-call's sentinel.
Attractions_wrong_sentinel(ok) ==
    Dict1("attractions", IF ok THEN ResponseText("attractions") ELSE EventsUnavailable)

Attractions(ok) ==
    Dict1("attractions", IF ok THEN ResponseText("attractions") ELSE AttractionsUnavailable)

get_attractions(ok) ==
    /\ stage = "research" /\ step = "attractions"
    /\ Issue("attractions", [destination |-> input_data.destination], ok)
    /\ sub' = [sub EXCEPT !.attractions = Attractions(ok)]
    /\ SubCallDone("accommodation")

AccommodationInfo(ok) ==
    Dict1("accommodation",
          IF ok THEN ResponseText("accommodation") ELSE AccommodationUnavailable)

\* budget_per_night is computed before the try: a zero duration_days raises
\* ZeroDivisionError out of the stage.
get_accommodation_info(ok) ==
    /\ stage = "research" /\ step = "accommodation"
    /\ IF agent_constraints.duration_days = 0
       THEN Raised("ZeroDivisionError")
       ELSE /\ Issue("accommodation",
                     [destination |-> input_data.destination,
                      traveler_count |-> agent_constraints.traveler_count,
                      budget_per_night |-> BudgetPerNight(agent_constraints),
                      duration_days |-> agent_constraints.duration_days,
                      travel_style |-> agent_constraints.travel_style], ok)
            /\ sub' = [sub EXCEPT !.accommodation_info = AccommodationInfo(ok)]
            /\ SubCallDone("transport")

TransportInfo(ok) ==
    Dict1("transport", IF ok THEN ResponseText("transport") ELSE TransportUnavailable)

get_transport_info(ok) ==
    /\ stage = "research" /\ step = "transport"
    /\ Issue("transport", [destination |-> input_data.destination,
                           duration_days |-> agent_constraints.duration_days,
                           traveler_count |-> agent_constraints.traveler_count,
                           travel_style |-> agent_constraints.travel_style], ok)
    /\ sub' = [sub EXCEPT !.transport_info = TransportInfo(ok)]
    /\ SubCallDone("synthesis")

\* The mapping _process_internal hands to _synthesize_information.
SynthesisData(inp, c, s) ==
    [destination |-> inp.destination,
     weather |-> s.weather_info,
     events |-> s.local_events,
     attractions |-> s.attractions,
     accommodation |-> s.accommodation_info,
     transport |-> s.transport_info,
     constraints |-> asdict(c)]

Synthesis(ok) ==
    Dict1("synthesis", IF ok THEN ResponseText("synthesis") ELSE SynthesisUnavailable)

synthesize_information(ok) ==
    /\ stage = "research" /\ step = "synthesis"
    /\ Issue("synthesis", SynthesisData(input_data, agent_constraints, sub), ok)
    /\ sub' = [sub EXCEPT !.research_summary = Synthesis(ok)]
    /\ SubCallDone("return")

\* The dict _process_internal returns; it reads self.processing_time (pt)
\* while process has not yet assigned this invocation's duration.
ResearchResult(inp, s, pt) ==
    [destination |-> inp.destination,
     research_data |-> s.research_summary,
     raw_data |-> [weather |-> s.weather_info,
                   events |-> s.local_events,
                   attractions |-> s.attractions,
                   accommodation |-> s.accommodation_info,
                   transport |-> s.transport_info],
     processing_time |-> pt]

\* Mutant: the duration is recorded before the result is built.
research_return_fresh(d) ==
    /\ stage = "research" /\ step = "return"
    /\ Return(ResearchResult(input_data, sub, (now + d) - start_time))
    /\ RecordTime("research", d)
    /\ UNCHANGED <<callArgs, planLocals, input_data, start_time, agent_constraints,
                   sub, raised, call_log, failed,
                   gemini_client_key>>

\* _process_internal lines 162-173, then process lines 126-128.
research_return(d) ==
    /\ stage = "research" /\ step = "return"
    /\ Return(ResearchResult(input_data, sub, processing_time["research"]))
    /\ RecordTime("research", d)
    /\ UNCHANGED <<callArgs, planLocals, input_data, start_time, agent_constraints,
                   sub, raised, call_log, failed,
                   gemini_client_key>>

\* ------------------------------------------------------ PlanningAgent
\* Mutant: a missing research_data is replaced by a default instead of raising.
planning_enter_default ==
    /\ stage = "planning" /\ step = "enter" /\ ~patched
    /\ start_time' = now
    /\ UNCHANGED <<callArgs, planLocals, input_data, now, processing_time, ret, result,
                   sub, call_log, failed,
                   gemini_client_key>>
    /\ IF "constraints" \notin DOMAIN input_data
       THEN Raise("KeyError") /\ UNCHANGED agent_constraints
       ELSE IF ConstructorRaises(input_data.constraints)
       THEN Raise("TypeError") /\ UNCHANGED agent_constraints
       ELSE IF "destination" \notin DOMAIN input_data
       THEN Raise("KeyError") /\ UNCHANGED agent_constraints
       ELSE /\ agent_constraints' = TravelConstraints(input_data.constraints)
            /\ step' = "generate_itinerary"
            /\ UNCHANGED <<pc, stage, raised, stage_log>>

\* process line 124, then _process_internal lines 353-355.
planning_enter ==
    /\ stage = "planning" /\ step = "enter" /\ ~patched
    /\ start_time' = now
    /\ UNCHANGED <<callArgs, planLocals, input_data, now, processing_time, ret, result,
                   sub, call_log, failed,
                   gemini_client_key>>
    /\ IF "research_data" \notin DOMAIN input_data \/ "constraints" \notin DOMAIN input_data
       THEN Raise("KeyError") /\ UNCHANGED agent_constraints
       ELSE IF ConstructorRaises(input_data.constraints)
       THEN Raise("TypeError") /\ UNCHANGED agent_constraints
       ELSE IF "destination" \notin DOMAIN input_data
       THEN Raise("KeyError") /\ UNCHANGED agent_constraints
       ELSE /\ agent_constraints' = TravelConstraints(input_data.constraints)
            /\ step' = "generate_itinerary"
            /\ UNCHANGED <<pc, stage, raised, stage_log>>

Itinerary(ok) ==
    Dict1("itinerary", IF ok THEN ResponseText("generate_itinerary") ELSE ItineraryFailed)

\* The prompt joins constraints.preferences before the try.
generate_itinerary(ok) ==
    /\ stage = "planning" /\ step = "generate_itinerary"
    /\ IF JoinRaises(agent_constraints.preferences)
       THEN Raised("TypeError")
       ELSE /\ Issue("generate_itinerary",
                     [duration_days |-> agent_constraints.duration_days,
                      destination |-> input_data.destination,
                      research_data |-> JsonDumps(input_data.research_data),
                      total_budget_usd |-> agent_constraints.total_budget_usd,
                      traveler_count |-> agent_constraints.traveler_count,
                      travel_style |-> agent_constraints.travel_style,
                      preferences |-> Join(agent_constraints.preferences.list, ", ")], ok)
            /\ sub' = [sub EXCEPT !.itinerary = Itinerary(ok)]
            /\ SubCallDone("optimize_logistics")

\* Mutant: the except-branch substitutes a fixed string.
OptimizedItinerary_sentinel(itinerary, ok) ==
    Dict1("optimized_itinerary",
          IF ok THEN ResponseText("optimize_logistics")
          ELSE Str("Optimized itinerary unavailable"))

\* The except-branch hands back the itinerary it was given.
OptimizedItinerary(itinerary, ok) ==
    Dict1("optimized_itinerary",
          IF ok THEN ResponseText("optimize_logistics") ELSE itinerary)

optimize_logistics(ok) ==
    /\ stage = "planning" /\ step = "optimize_logistics"
    /\ Issue("optimize_logistics", [itinerary |-> JsonDumps(sub.itinerary)], ok)
    /\ sub' = [sub EXCEPT !.optimized_itinerary = OptimizedItinerary(sub.itinerary, ok)]
    /\ SubCallDone("analyze_costs")

CostAnalysis(ok) ==
    Dict1("cost_analysis",
          IF ok THEN ResponseText("analyze_costs") ELSE CostAnalysisUnavailable)

analyze_costs(ok) ==
    /\ stage = "planning" /\ step = "analyze_costs"
    /\ Issue("analyze_costs",
             [itinerary |-> JsonDumps(sub.optimized_itinerary),
              total_budget_usd |-> agent_constraints.total_budget_usd,
              traveler_count |-> agent_constraints.traveler_count], ok)
    /\ sub' = [sub EXCEPT !.cost_analysis = CostAnalysis(ok)]
    /\ SubCallDone("return")

\* _calculate_metrics: fixed placeholders, in hundredths.
calculate_metrics ==
    [budget_utilization |-> 85, geographic_efficiency |-> 92,
     time_efficiency |-> 88, preference_match |-> 91]

\* Mutant: the stage hands on the itinerary as generated.
PlanningResult_raw(inp, s, pt) ==
    [destination |-> inp.destination,
     itinerary |-> s.itinerary,
     cost_analysis |-> s.cost_analysis,
     optimization_metrics |-> calculate_metrics,
     processing_time |-> pt]

PlanningResult(inp, s, pt) ==
    [destination |-> inp.destination,
     itinerary |-> s.optimized_itinerary,
     cost_analysis |-> s.cost_analysis,
     optimization_metrics |-> calculate_metrics,
     processing_time |-> pt]

\* _process_internal lines 366-372, then process lines 126-128.
planning_return(d) ==
    /\ stage = "planning" /\ step = "return"
    /\ Return(PlanningResult(input_data, sub, processing_time["planning"]))
    /\ RecordTime("planning", d)
    /\ UNCHANGED <<callArgs, planLocals, input_data, start_time, agent_constraints,
                   sub, raised, call_log, failed,
                   gemini_client_key>>

\* ------------------------------------------------ PersonalizationAgent
\* input_data.get('research_data', {})
ResearchContext(inp) ==
    IF "research_data" \in DOMAIN inp THEN inp.research_data ELSE EmptyDict

\* process line 124, then _process_internal lines 516-518.
personalization_enter ==
    /\ stage = "personalization" /\ step = "enter" /\ ~patched
    /\ start_time' = now
    /\ UNCHANGED <<callArgs, planLocals, input_data, now, processing_time, ret, result,
                   sub, call_log, failed,
                   gemini_client_key>>
    /\ IF "itinerary" \notin DOMAIN input_data \/ "constraints" \notin DOMAIN input_data
       THEN Raise("KeyError") /\ UNCHANGED agent_constraints
       ELSE IF ConstructorRaises(input_data.constraints)
       THEN Raise("TypeError") /\ UNCHANGED agent_constraints
       ELSE /\ agent_constraints' = TravelConstraints(input_data.constraints)
            /\ step' = "personalize"
            /\ UNCHANGED <<pc, stage, raised, stage_log>>

\* The except-branch hands back the itinerary it was given.
Personalized(itinerary, ok) ==
    Dict1("personalized", IF ok THEN ResponseText("personalize") ELSE itinerary)

\* The prompt joins constraints.preferences before the try.
personalize_itinerary(ok) ==
    /\ stage = "personalization" /\ step = "personalize"
    /\ IF JoinRaises(agent_constraints.preferences)
       THEN Raised("TypeError")
       ELSE /\ Issue("personalize",
                     [itinerary |-> JsonDumps(input_data.itinerary),
                      preferences |-> Join(agent_constraints.preferences.list, ", "),
                      travel_style |-> agent_constraints.travel_style,
                      traveler_count |-> agent_constraints.traveler_count,
                      must_visit |-> OrDefault(agent_constraints.must_visit,
                                               Str("None specified")),
                      avoid |-> OrDefault(agent_constraints.avoid, Str("None specified")),
                      research_data |-> JsonDumps(ResearchContext(input_data))], ok)
            /\ sub' = [sub EXCEPT !.personalized = Personalized(input_data.itinerary, ok)]
            /\ SubCallDone("contextual_recommendations")

\* Mutant: the except-branch substitutes a fixed string.
Enhanced_sentinel(itinerary, ok) ==
    Dict1("enhanced_itinerary",
          IF ok THEN ResponseText("contextual_recommendations")
          ELSE Str("Recommendations unavailable"))

\* The except-branch hands back the itinerary it was given.
Enhanced(itinerary, ok) ==
    Dict1("enhanced_itinerary",
          IF ok THEN ResponseText("contextual_recommendations") ELSE itinerary)

add_contextual_recommendations(ok) ==
    /\ stage = "personalization" /\ step = "contextual_recommendations"
    /\ Issue("contextual_recommendations", [itinerary |-> JsonDumps(sub.personalized)], ok)
    /\ sub' = [sub EXCEPT !.enhanced = Enhanced(sub.personalized, ok)]
    /\ SubCallDone("return")

\* _generate_notes; the preferences were joined once already, so the join
\* here cannot raise.
generate_notes(c) ==
    List(<<"Itinerary personalized for " \o c.travel_style.str \o " travel style",
           "Optimized for " \o ToString(c.traveler_count) \o " travelers",
           "Focused on preferences: " \o Join(Take(c.preferences.list, 3), ", "),
           "Alternative options provided for weather contingencies">>)

PersonalizationResult(c, s, pt) ==
    [personalized_itinerary |-> s.enhanced,
     personalization_notes |-> generate_notes(c),
     processing_time |-> pt]

\* _process_internal lines 526-530, then process lines 126-128.
personalization_return(d) ==
    /\ stage = "personalization" /\ step = "return"
    /\ Return(PersonalizationResult(agent_constraints, sub,
                                    processing_time["personalization"]))
    /\ RecordTime("personalization", d)
    /\ UNCHANGED <<callArgs, planLocals, input_data, start_time, agent_constraints,
                   sub, raised, call_log, failed,
                   gemini_client_key>>

\* ------------------------------------------- TravelPlanningOrchestrator
ResearchInput(dest, c) ==
    [destination |-> dest, constraints |-> asdict(c)]

PlanningInput(dest, c, ro) ==
    [destination |-> dest, constraints |-> asdict(c), research_data |-> ro.research_data]

\* Mutant: the whole Research output is forwarded as research_data.
PersonalizationInput_whole(dest, c, ro, po) ==
    [destination |-> dest, constraints |-> asdict(c),
     research_data |-> ro, itinerary |-> po.itinerary]

PersonalizationInput(dest, c, ro, po) ==
    [destination |-> dest, constraints |-> asdict(c),
     research_data |-> ro.research_data, itinerary |-> po.itinerary]

\* Mutant: the sum leaves out the last stage.
TotalTime_short(pt) == pt["research"] + pt["planning"]

TotalTime(pt) == pt["research"] + pt["planning"] + pt["personalization"]

AgentTimes(pt) ==
    [research |-> pt["research"], planning |-> pt["planning"],
     personalization |-> pt["personalization"]]

\* Mutant: the destination is the one the test asserts, whatever the argument.
CompositeResult_fixed_destination(dest, c, ro, po, pe, pt) ==
    [destination |-> Str("Georgia"),
     constraints |-> asdict(c),
     research_output |-> ro,
     planning_output |-> po,
     personalization_output |-> pe,
     total_processing_time |-> TotalTime(pt),
     agent_times |-> AgentTimes(pt)]

CompositeResult(dest, c, ro, po, pe, pt) ==
    [destination |-> dest,
     constraints |-> asdict(c),
     research_output |-> ro,
     planning_output |-> po,
     personalization_output |-> pe,
     total_processing_time |-> TotalTime(pt),
     agent_times |-> AgentTimes(pt)]

\* plan_trip lines 614-624, called once on a new orchestrator as main and
\* test_orchestrator_flow call it; mock says whether the agents' process is
\* patched for the call, as the test patches it.
plan_trip(dest, c, mock) ==
    /\ calls = 0
    /\ Fresh
    /\ entry' = "plan_trip"
    /\ patched' = mock
    /\ destination' = Str(dest)
    /\ constraints' = c
    /\ research_input' = ResearchInput(Str(dest), c)
    /\ planning_input' = NoneVal
    /\ personalization_input' = NoneVal
    /\ Invoke("research", ResearchInput(Str(dest), c), <<>>)
    /\ pc' = "phase1"
    /\ UNCHANGED processing_time

\* Mutant: planning is started without awaiting research's process, as soon
\* as research's internal procedure has its result.
phase2_early ==
    /\ entry = "plan_trip" /\ pc = "phase1" /\ stage = "research" /\ step = "return"
    /\ LET ro == ResearchResult(input_data, sub, processing_time["research"])
       IN  /\ research_output' = ro
           /\ planning_input' = PlanningInput(destination, constraints, ro)
           /\ Invoke("planning", PlanningInput(destination, constraints, ro), stage_log)
    /\ pc' = "phase2"
    /\ UNCHANGED <<callArgs, agent_constraints, sub, start_time, now, processing_time, ret,
                   planning_output, personalization_output, research_input,
                   personalization_input, result, raised, call_log, failed,
                   gemini_client_key>>

\* plan_trip lines 626-633: research_agent.process has returned.
phase2 ==
    /\ entry = "plan_trip" /\ pc = "phase1" /\ stage = "none"
    /\ research_output' = ret
    /\ IF "research_data" \notin DOMAIN ret
       THEN /\ raised' = "KeyError"
            /\ pc' = "raised"
            /\ UNCHANGED <<planning_input, stage, step, input_data, stage_log>>
       ELSE /\ planning_input' = PlanningInput(destination, constraints, ret)
            /\ Invoke("planning", PlanningInput(destination, constraints, ret), stage_log)
            /\ pc' = "phase2"
            /\ UNCHANGED raised
    /\ UNCHANGED <<callArgs, agent_constraints, sub, start_time, now, processing_time, ret,
                   planning_output, personalization_output, research_input,
                   personalization_input, result, call_log, failed,
                   gemini_client_key>>

\* Mutant: personalization is started only for an itinerary that was generated.
phase3_gated ==
    /\ entry = "plan_trip" /\ pc = "phase2" /\ stage = "none"
    /\ "generate_itinerary" \notin failed
    /\ planning_output' = ret
    /\ IF "itinerary" \notin DOMAIN ret
       THEN /\ raised' = "KeyError"
            /\ pc' = "raised"
            /\ UNCHANGED <<personalization_input, stage, step, input_data, stage_log>>
       ELSE /\ personalization_input' =
                   PersonalizationInput(destination, constraints, research_output, ret)
            /\ Invoke("personalization",
                      PersonalizationInput(destination, constraints, research_output, ret),
                      stage_log)
            /\ pc' = "phase3"
            /\ UNCHANGED raised
    /\ UNCHANGED <<callArgs, agent_constraints, sub, start_time, now, processing_time, ret,
                   research_output, personalization_output, research_input,
                   planning_input, result, call_log, failed,
                   gemini_client_key>>

\* plan_trip lines 635-643: planning_agent.process has returned.
phase3 ==
    /\ entry = "plan_trip" /\ pc = "phase2" /\ stage = "none"
    /\ planning_output' = ret
    /\ IF "itinerary" \notin DOMAIN ret
       THEN /\ raised' = "KeyError"
            /\ pc' = "raised"
            /\ UNCHANGED <<personalization_input, stage, step, input_data, stage_log>>
       ELSE /\ personalization_input' =
                   PersonalizationInput(destination, constraints, research_output, ret)
            /\ Invoke("personalization",
                      PersonalizationInput(destination, constraints, research_output, ret),
                      stage_log)
            /\ pc' = "phase3"
            /\ UNCHANGED raised
    /\ UNCHANGED <<callArgs, agent_constraints, sub, start_time, now, processing_time, ret,
                   research_output, personalization_output, research_input,
                   planning_input, result, call_log, failed,
                   gemini_client_key>>

\* plan_trip lines 645-664: personalization_agent.process has returned.
compile_result ==
    /\ entry = "plan_trip" /\ pc = "phase3" /\ stage = "none"
    /\ personalization_output' = ret
    /\ result' = CompositeResult(destination, constraints, research_output,
                                 planning_output, ret, processing_time)
    /\ pc' = "done"
    /\ UNCHANGED <<callArgs, stage, step, input_data, agent_constraints, sub, start_time,
                   now, processing_time, ret, research_output, planning_output,
                   research_input, planning_input, personalization_input, raised,
                   call_log, failed, stage_log,
                   gemini_client_key>>

\* --------------------------------------------------------- test harness
\* The return_value of the patched process: the three values of
\* test_orchestrator_flow, each of which any patched agent may return.
MockReturns ==
    { [research_data |-> Str("test")],
      [itinerary |-> Str("test")],
      [personalized_itinerary |-> Str("test")] }

\* A patched process returns its return_value; the agent's own process does
\* not run, so its processing_time stays.
mock_process(v) ==
    /\ patched /\ stage \in Agents /\ step = "enter"
    /\ Return(v)
    /\ UNCHANGED <<callArgs, planLocals, input_data, agent_constraints, sub, start_time,
                   now, processing_time, raised, call_log, failed,
                   gemini_client_key>>

\* ------------------------------------------------- direct process calls
SampleResearchData == Dict1("synthesis", ResponseText("synthesis"))
SampleItinerary == Dict1("optimized_itinerary", ResponseText("optimize_logistics"))

\* constraints mappings a caller may put in an input mapping: every field,
\* only the fields without a default, or a required field missing.
ConstraintDicts ==
    {asdict(c) : c \in ConstraintInputs}
    \cup {[f \in RequiredFields |-> ValidConstraints[f]]}
    \cup {[f \in RequiredFields \ {"preferences"} |-> ValidConstraints[f]]}

\* The keys each variant's _process_internal reads.
InputKeys(agent) ==
    IF agent = "research" THEN {"destination", "constraints"}
    ELSE IF agent = "planning" THEN {"research_data", "constraints", "destination"}
    ELSE {"itinerary", "constraints", "research_data"}

FullInput(dest, cd) ==
    [destination |-> Str(dest), constraints |-> cd,
     research_data |-> SampleResearchData, itinerary |-> SampleItinerary]

\* The input mappings a caller hands to agent.process: every key present with
\* any of the constraints mappings, or some keys absent.
ProcessInputs(agent) ==
    { [k \in InputKeys(agent) |-> FullInput(dest, cd)[k]] :
        dest \in Destinations, cd \in ConstraintDicts }
    \cup
    { [k \in K |-> FullInput(dest, asdict(ValidConstraints))[k]] :
        K \in SUBSET InputKeys(agent), dest \in Destinations }

\* A caller awaits agent.process(inp) on one of the orchestrator's agents.
call_process(agent, inp) ==
    /\ entry # "plan_trip"
    /\ Fresh
    /\ entry' = "process"
    /\ patched' = FALSE
    /\ destination' = NoneVal
    /\ constraints' = NoneVal
    /\ research_input' = NoneVal
    /\ planning_input' = NoneVal
    /\ personalization_input' = NoneVal
    /\ Invoke(agent, inp, <<>>)
    /\ pc' = "direct"
    /\ UNCHANGED processing_time

\* ------------------------------------------------------- specification
Elapsed == 0..MaxElapsed

Next ==
    \/ \E dest \in Destinations, c \in ConstraintInputs, mock \in BOOLEAN :
          plan_trip(dest, c, mock)
    \/ phase2
    \/ phase3
    \/ compile_result
    \/ \E v \in MockReturns : mock_process(v)
    \/ \E agent \in Agents : \E inp \in ProcessInputs(agent) : call_process(agent, inp)
    \/ research_enter
    \/ \E ok \in BOOLEAN : get_weather_info(ok)
    \/ \E ok \in BOOLEAN : get_local_events(ok)
    \/ \E ok \in BOOLEAN : get_attractions(ok)
    \/ \E ok \in BOOLEAN : get_accommodation_info(ok)
    \/ \E ok \in BOOLEAN : get_transport_info(ok)
    \/ \E ok \in BOOLEAN : synthesize_information(ok)
    \/ \E d \in Elapsed : research_return(d)
    \/ planning_enter
    \/ \E ok \in BOOLEAN : generate_itinerary(ok)
    \/ \E ok \in BOOLEAN : optimize_logistics(ok)
    \/ \E ok \in BOOLEAN : analyze_costs(ok)
    \/ \E d \in Elapsed : planning_return(d)
    \/ personalization_enter
    \/ \E ok \in BOOLEAN : personalize_itinerary(ok)
    \/ \E ok \in BOOLEAN : add_contextual_recommendations(ok)
    \/ \E d \in Elapsed : personalization_return(d)

Spec == Init /\ [][Next]_vars

\* ------------------------------------------- a provider that never answers
\* The statements that run before a sub-call's request and may raise.
PreCallRaises ==
    \/ step = "accommodation" /\ agent_constraints.duration_days = 0
    \/ step \in {"generate_itinerary", "personalize"}
          /\ JoinRaises(agent_constraints.preferences)

\* Mutant: the client gives up on the request and its error leaves the stage.
provider_hangs_timeout ==
    /\ stage \in Agents /\ step \in CallNames /\ ~PreCallRaises
    /\ call_log' = Append(call_log, [call |-> step, outcome |-> "hung"])
    /\ BindClient(step)
    /\ Raise("TimeoutError")
    /\ InStage
    /\ UNCHANGED <<agent_constraints, sub, failed>>

\* The request of the current sub-call is sent and no answer ever arrives:
\* the synchronous client call blocks, and neither the sub-call, process nor
\* plan_trip sets a timeout, so nothing in the program runs again.
provider_hangs ==
    /\ stage \in Agents /\ step \in CallNames /\ ~PreCallRaises
    /\ call_log' = Append(call_log, [call |-> step, outcome |-> "hung"])
    /\ BindClient(step)
    /\ step' = "hung"
    /\ InStage
    /\ UNCHANGED <<agent_constraints, sub, failed, pc, stage, raised, stage_log>>

NextHang ==
    \/ Next
    \/ provider_hangs

SpecHang == Init /\ [][NextHang]_vars


\* --------------------------------------- a second orchestrator is built
\* TravelPlanningOrchestrator(..., google_key=key) is constructed elsewhere in
\* the process, at any moment: its agents and clients are new objects, but
\* its PersonalizationAgent.__init__ calls genai.configure(api_key=key), which
\* replaces the module-wide key.
construct_other(key) ==
    /\ genai_api_key' = key
    /\ UNCHANGED <<entry, patched, pc, destination, constraints, stage, step, input_data,
                   agent_constraints, sub, start_time, now, processing_time, ret,
                   planLocals, result, raised, call_log, failed, stage_log, calls,
                   gemini_client_key>>

NextTwo ==
    \/ Next
    \/ \E key \in OtherGoogleKeys : construct_other(key)

SpecTwo == Init /\ [][NextTwo]_vars


\* ----------------------------------------------------- a run in progress
\* The steps of a call once it has started: the event loop runs the awaited
\* coroutines, and every provider request returns or fails.
Run ==
    \/ phase2
    \/ phase3
    \/ compile_result
    \/ \E v \in MockReturns : mock_process(v)
    \/ research_enter
    \/ \E ok \in BOOLEAN : get_weather_info(ok)
    \/ \E ok \in BOOLEAN : get_local_events(ok)
    \/ \E ok \in BOOLEAN : get_attractions(ok)
    \/ \E ok \in BOOLEAN : get_accommodation_info(ok)
    \/ \E ok \in BOOLEAN : get_transport_info(ok)
    \/ \E ok \in BOOLEAN : synthesize_information(ok)
    \/ \E d \in Elapsed : research_return(d)
    \/ planning_enter
    \/ \E ok \in BOOLEAN : generate_itinerary(ok)
    \/ \E ok \in BOOLEAN : optimize_logistics(ok)
    \/ \E ok \in BOOLEAN : analyze_costs(ok)
    \/ \E d \in Elapsed : planning_return(d)
    \/ personalization_enter
    \/ \E ok \in BOOLEAN : personalize_itinerary(ok)
    \/ \E ok \in BOOLEAN : add_contextual_recommendations(ok)
    \/ \E d \in Elapsed : personalization_return(d)

SpecLive == Init /\ [][Next]_vars /\ WF_vars(Run)


\* ================================================================ claims
\* The data-model invariants of TravelConstraints.
NumericValid(c) ==
    c.total_budget_usd > 0 /\ c.duration_days > 0 /\ c.traveler_count > 0
ConstraintsValid(c) == NumericValid(c) /\ "list" \in DOMAIN c.preferences

\* A plan_trip call on the real (unpatched) agents.
RealTrip == entry = "plan_trip" /\ ~patched
TripDone == RealTrip /\ pc = "done"

ReturnedBefore(agent, i) ==
    \E j \in 1..(i - 1) : stage_log[j] = [ev |-> "return", agent |-> agent]

\* C1: in every run of plan_trip, planning's process is invoked only after
\* research's process has returned, personalization's only after planning's
\* has returned, and a process is invoked only when the one before it has
\* returned, so no two stages are in progress together.
C1_StagesStrictlyOrdered ==
    entry = "plan_trip" =>
        \A i \in 1..Len(stage_log) :
            stage_log[i].ev = "invoke" =>
                /\ stage_log[i].agent = "research" => i = 1
                /\ stage_log[i].agent = "planning" => ReturnedBefore("research", i)
                /\ stage_log[i].agent = "personalization" => ReturnedBefore("planning", i)
                /\ i > 1 => stage_log[i - 1].ev = "return"

C1_Witness ==
    /\ TripDone
    /\ stage_log = << [ev |-> "invoke", agent |-> "research"],
                      [ev |-> "return", agent |-> "research"],
                      [ev |-> "invoke", agent |-> "planning"],
                      [ev |-> "return", agent |-> "planning"],
                      [ev |-> "invoke", agent |-> "personalization"],
                      [ev |-> "return", agent |-> "personalization"] >>

\* The value a sub-call that raised leaves in its sub-result.
FixedSentinels ==
    [weather_info |-> Dict1("weather_summary", WeatherUnavailable),
     local_events |-> Dict1("events", EventsUnavailable),
     attractions |-> Dict1("attractions", AttractionsUnavailable),
     accommodation_info |-> Dict1("accommodation", AccommodationUnavailable),
     transport_info |-> Dict1("transport", TransportUnavailable),
     research_summary |-> Dict1("synthesis", SynthesisUnavailable),
     itinerary |-> Dict1("itinerary", ItineraryFailed),
     cost_analysis |-> Dict1("cost_analysis", CostAnalysisUnavailable)]

StageResultKeys ==
    [research |-> {"destination", "research_data", "raw_data", "processing_time"},
     planning |-> {"destination", "itinerary", "cost_analysis", "optimization_metrics",
                   "processing_time"},
     personalization |-> {"personalized_itinerary", "personalization_notes",
                          "processing_time"}]

\* C2: with constraints that satisfy the data-model invariants, no exception
\* reaches plan_trip's caller whichever provider calls fail, and the result
\* plan_trip returns holds the three StageResults the stages returned.
C2_ValidTripNeverRaises ==
    (RealTrip /\ ConstraintsValid(constraints)) =>
        /\ raised = "none"
        /\ pc # "raised"
        /\ pc = "done" =>
              /\ result.research_output = research_output
              /\ result.planning_output = planning_output
              /\ result.personalization_output = personalization_output
              /\ DOMAIN research_output = StageResultKeys["research"]
              /\ DOMAIN planning_output = StageResultKeys["planning"]
              /\ DOMAIN personalization_output = StageResultKeys["personalization"]

C2_Witness ==
    /\ TripDone
    /\ ConstraintsValid(constraints)
    /\ failed = {"weather", "accommodation", "generate_itinerary", "personalize"}
    /\ result.research_output.raw_data.weather = FixedSentinels.weather_info

\* C3 (as claimed): under constraints that break a numeric invariant plan_trip
\* issues no provider call and never returns a result.
C3_InvalidRejectedBeforeAnyCall ==
    (RealTrip /\ ~NumericValid(constraints)) =>
        /\ call_log = <<>>
        /\ pc # "done"

C5_TotalIsSumOfAgentTimes ==
    (entry = "plan_trip" /\ pc = "done") =>
        /\ DOMAIN result.agent_times = {"research", "planning", "personalization"}
        /\ result.total_processing_time =
              result.agent_times.research + result.agent_times.planning
              + result.agent_times.personalization

C5_Witness ==
    /\ TripDone
    /\ ConstraintsValid(constraints)
    /\ failed # {}
    /\ result.agent_times = [research |-> 1, planning |-> 0, personalization |-> 1]
    /\ result.total_processing_time = 2

FiveResearchCalls == {"weather", "events", "attractions", "accommodation", "transport"}

\* The Research StageResult once research_agent.process has returned it: to
\* plan_trip, or to a direct caller.
ResearchReturned ==
    \/ entry = "plan_trip" /\ ~patched /\ research_output # NoneVal
    \/ entry = "process" /\ pc = "done" /\ stage_log[1].agent = "research"
ResearchStageResult == IF entry = "process" THEN result ELSE research_output

\* What each research sub-call leaves when it answered.
ResearchResponses ==
    [weather |-> Dict1("weather_summary", ResponseText("weather")),
     events |-> Dict1("events", ResponseText("events")),
     attractions |-> Dict1("attractions", ResponseText("attractions")),
     accommodation |-> Dict1("accommodation", ResponseText("accommodation")),
     transport |-> Dict1("transport", ResponseText("transport"))]
ResearchSentinels ==
    [weather |-> FixedSentinels.weather_info,
     events |-> FixedSentinels.local_events,
     attractions |-> FixedSentinels.attractions,
     accommodation |-> FixedSentinels.accommodation_info,
     transport |-> FixedSentinels.transport_info]

\* C6: when exactly one of the five research sub-calls failed, raw_data of
\* the Research StageResult has all five keys, the failed one holds its
\* sentinel, the other four hold the provider's responses, and the synthesis
\* call was issued, sixth, with those five values.
C6_OneResearchFailure ==
    (ResearchReturned /\ Cardinality(failed \cap FiveResearchCalls) = 1) =>
        /\ DOMAIN ResearchStageResult.raw_data = FiveResearchCalls
        /\ \A c \in FiveResearchCalls :
              ResearchStageResult.raw_data[c] =
                  IF c \in failed THEN ResearchSentinels[c] ELSE ResearchResponses[c]
        /\ Len(call_log) >= 6
        /\ call_log[6].call = "synthesis"
        /\ \A c \in FiveResearchCalls :
              call_log[6].prompt[c] = ResearchStageResult.raw_data[c]

C6_Witness ==
    /\ ResearchReturned
    /\ failed \cap FiveResearchCalls = {"attractions"}
    /\ ResearchStageResult.raw_data.attractions = ResearchSentinels.attractions
    /\ ResearchStageResult.raw_data.transport = ResearchResponses.transport

\* C7 (as claimed): in every result of plan_trip each StageResult's
\* processing_time equals agent_times of its stage.
C7_StageTimeIsOwnDuration ==
    (TripDone /\ ConstraintsValid(constraints)) =>
        /\ result.research_output.processing_time = result.agent_times.research
        /\ result.planning_output.processing_time = result.agent_times.planning
        /\ result.personalization_output.processing_time
              = result.agent_times.personalization

\* The agent whose process call raised last, and the keys its variant needs.
RequiredKeys ==
    [research |-> {"destination", "constraints"},
     planning |-> {"research_data", "constraints", "destination"},
     personalization |-> {"itinerary", "constraints"}]
LastEvent == stage_log[Len(stage_log)]
ProcessRaised == Len(stage_log) > 0 /\ LastEvent.ev = "raise"

\* C8 (as claimed): a process whose input mapping has the keys its variant
\* requires, with a value for every constraints field and a list of
\* preferences, never raises.
C8_ProcessNeverRaises ==
    (~patched /\ ProcessRaised) =>
        ~(/\ RequiredKeys[LastEvent.agent] \subseteq DOMAIN input_data
          /\ DOMAIN input_data.constraints = FieldNames
          /\ "list" \in DOMAIN input_data.constraints.preferences)

\* The agent a direct caller invoked.
DirectAgent == stage_log[1].agent
Invoked(agent) ==
    \E i \in 1..Len(stage_log) : stage_log[i] = [ev |-> "invoke", agent |-> agent]

\* C9: a process whose input mapping lacks a required key raises KeyError on
\* its first step, with no provider call issued and no StageResult returned;
\* when the Research output lacks research_data or the Planning output lacks
\* itinerary, plan_trip raises KeyError to its caller and the next stage is
\* never invoked.
C9_MissingKeyRaisesAtOnce ==
    /\ (entry = "process" /\ ~(RequiredKeys[DirectAgent] \subseteq DOMAIN input_data)
           /\ step # "enter") =>
          /\ pc = "raised"
          /\ raised = "KeyError"
          /\ LastEvent = [ev |-> "raise", agent |-> DirectAgent]
          /\ call_log = <<>>
          /\ result = NoneVal
    /\ (entry = "plan_trip" /\ research_output # NoneVal
           /\ "research_data" \notin DOMAIN research_output) =>
          /\ pc = "raised"
          /\ raised = "KeyError"
          /\ result = NoneVal
          /\ ~Invoked("planning")
          /\ ~Invoked("personalization")
    /\ (entry = "plan_trip" /\ planning_output # NoneVal
           /\ "itinerary" \notin DOMAIN planning_output) =>
          /\ pc = "raised"
          /\ raised = "KeyError"
          /\ result = NoneVal
          /\ ~Invoked("personalization")

C9_Witness ==
    /\ entry = "process"
    /\ DirectAgent = "planning"
    /\ DOMAIN input_data = {"constraints", "destination"}
    /\ raised = "KeyError"
    /\ call_log = <<>>

\* C10 (as claimed): the key sets of the three input mappings are exactly
\* the keys the variants declare.
C10_ExactlyDeclaredKeys ==
    entry = "plan_trip" =>
        /\ DOMAIN research_input = {"destination", "constraints"}
        /\ planning_input # NoneVal =>
              DOMAIN planning_input = {"destination", "constraints", "research_data"}
        /\ personalization_input # NoneVal =>
              DOMAIN personalization_input = {"itinerary", "constraints", "research_data"}

\* C10 (amended): research receives destination and constraints; planning
\* receives destination, constraints and the research_data field of the
\* Research output; personalization receives destination, constraints, that
\* same research_data and the itinerary field of the Planning output, and
\* nothing else; each input is built before the stage it feeds or any later
\* stage has produced anything.
C10_StageInputs ==
    entry = "plan_trip" =>
        /\ research_input = [destination |-> destination,
                             constraints |-> asdict(constraints)]
        /\ planning_input # NoneVal =>
              /\ planning_input = [destination |-> destination,
                                   constraints |-> asdict(constraints),
                                   research_data |-> research_output.research_data]
        /\ personalization_input # NoneVal =>
              /\ personalization_input = [destination |-> destination,
                                          constraints |-> asdict(constraints),
                                          research_data |-> research_output.research_data,
                                          itinerary |-> planning_output.itinerary]
        /\ (stage = "research" /\ step = "enter") =>
              /\ input_data = research_input
              /\ research_output = NoneVal /\ planning_output = NoneVal
              /\ personalization_output = NoneVal
        /\ (stage = "planning" /\ step = "enter") =>
              /\ input_data = planning_input
              /\ planning_output = NoneVal /\ personalization_output = NoneVal
        /\ (stage = "personalization" /\ step = "enter") =>
              /\ input_data = personalization_input
              /\ personalization_output = NoneVal

C10_Witness ==
    /\ RealTrip
    /\ stage = "personalization" /\ step = "enter"
    /\ DOMAIN input_data = {"destination", "constraints", "research_data", "itinerary"}
    /\ input_data.itinerary = Dict1("optimized_itinerary", Dict1("itinerary", ItineraryFailed))


IsHung(i) == "outcome" \in DOMAIN call_log[i]
AgentOf(call) ==
    IF call \in Range(ResearchCalls) THEN "research"
    ELSE IF call \in Range(PlanningCalls) THEN "planning" ELSE "personalization"
PhaseOf ==
    [research |-> "phase1", planning |-> "phase2", personalization |-> "phase3"]

\* C11: once a provider call hangs, plan_trip never returns and never
\* raises: the hung call stays the last call issued, its stage stays the last
\* stage invoked and never returns, no later stage is started, no result is
\* produced, and no timeout, cancellation or retry ends or repeats the call.
C11_HungCallBlocksPipeline ==
    \A i \in 1..Len(call_log) :
        IsHung(i) =>
            /\ i = Len(call_log)
            /\ \A j \in 1..(i - 1) : call_log[j].call # call_log[i].call
            /\ pc \notin {"done", "raised"}
            /\ raised = "none"
            /\ result = NoneVal
            /\ stage = AgentOf(call_log[i].call)
            /\ step = "hung"
            /\ LastEvent = [ev |-> "invoke", agent |-> stage]
            /\ entry = "plan_trip" =>
                  /\ pc = PhaseOf[stage]
                  /\ personalization_output = NoneVal
                  /\ stage = "research" => research_output = NoneVal
                  /\ stage # "personalization" => planning_output = NoneVal

C11_Witness ==
    /\ RealTrip
    /\ Len(call_log) = 8
    /\ IsHung(8)
    /\ call_log[8].call = "optimize_logistics"
    /\ pc = "phase2"


ResultKeys ==
    {"destination", "constraints", "research_output", "planning_output",
     "personalization_output", "total_processing_time", "agent_times"}

\* C12: in a plan_trip run, patched or not, whose Research output carries
\* research_data and whose Planning output carries itinerary, plan_trip keeps
\* the value each process call returned exactly as returned, and its result
\* has destination equal to the destination argument, constraints equal to
\* the field values of the constraints argument, the three outputs equal to
\* the three returned values, and total_processing_time and agent_times.
C12_ResultCarriesStageOutputs ==
    [][entry = "plan_trip" =>
          /\ (pc = "phase1" /\ pc' = "phase2") => research_output' = ret
          /\ (pc = "phase2" /\ pc' = "phase3") => planning_output' = ret
          /\ research_output # NoneVal => research_output' = research_output
          /\ planning_output # NoneVal => planning_output' = planning_output
          /\ (pc = "phase3" /\ pc' = "done") =>
                /\ DOMAIN result' = ResultKeys
                /\ result'.destination = destination
                /\ result'.constraints = [f \in FieldNames |-> constraints[f]]
                /\ result'.research_output = research_output
                /\ result'.planning_output = planning_output
                /\ result'.personalization_output = ret
                /\ "research_data" \in DOMAIN research_output
                /\ "itinerary" \in DOMAIN planning_output
          /\ pc = "done" => result' = result]_vars

C12_Witness ==
    /\ entry = "plan_trip" /\ patched /\ pc = "done"
    /\ destination = Str("Tbilisi")
    /\ result.destination = Str("Tbilisi")
    /\ result.research_output = [research_data |-> Str("test")]
    /\ result.planning_output = [itinerary |-> Str("test")]
    /\ result.personalization_output = [research_data |-> Str("test")]


\* C13 (as claimed): constructing another orchestrator never changes the
\* provider configuration a run on this orchestrator observes: every request
\* of the run is sent with a key this orchestrator was constructed with.
C13_RunsUseOwnKeys ==
    RealTrip =>
        \A i \in 1..Len(call_log) :
            "api_key" \in DOMAIN call_log[i] =>
                call_log[i].api_key \in {OwnKeys.openai, OwnKeys.anthropic, OwnKeys.google}


\* The local variable each sub-call's result is bound to.
SubOf ==
    [weather |-> "weather_info", events |-> "local_events", attractions |-> "attractions",
     accommodation |-> "accommodation_info", transport |-> "transport_info",
     synthesis |-> "research_summary", generate_itinerary |-> "itinerary",
     optimize_logistics |-> "optimized_itinerary", analyze_costs |-> "cost_analysis",
     personalize |-> "personalized", contextual_recommendations |-> "enhanced"]

\* C14: in a plan_trip run with valid constraints the provider calls issued
\* so far are always the first calls of the fixed order weather, events,
\* attractions, accommodation, transport, synthesis, generate itinerary,
\* optimize logistics, analyze costs, personalize, contextual
\* recommendations, each once; every call issued has returned or failed and
\* left its sub-result, failed calls included; and when plan_trip has
\* returned all eleven were issued, whichever of them failed.
C14_ElevenCallsInOrder ==
    (RealTrip /\ ConstraintsValid(constraints)) =>
        /\ Len(call_log) <= Len(ProviderCalls)
        /\ \A i \in 1..Len(call_log) :
              /\ call_log[i].call = ProviderCalls[i]
              /\ sub[SubOf[call_log[i].call]] # NoneVal
        /\ failed \subseteq {call_log[i].call : i \in 1..Len(call_log)}
        /\ \A a \in Agents :
              ReturnedBefore(a, Len(stage_log) + 1) =>
                  \A c \in CallNames :
                      AgentOf(c) = a => \E i \in 1..Len(call_log) : call_log[i].call = c
        /\ pc = "done" => Len(call_log) = Len(ProviderCalls)
        /\ pc # "raised"

C14_Witness ==
    /\ TripDone /\ ConstraintsValid(constraints)
    /\ failed = {"events", "generate_itinerary", "personalize"}
    /\ Len(call_log) = 11
    /\ call_log[3].call = "attractions"
    /\ call_log[11].call = "contextual_recommendations"


Issued(c) == \E i \in 1..Len(call_log) : call_log[i].call = c
PromptOf(c) == call_log[CHOOSE i \in 1..Len(call_log) : call_log[i].call = c].prompt

\* What generate-itinerary produced: the provider's answer or its sentinel.
Generated ==
    Dict1("itinerary", IF "generate_itinerary" \in failed THEN ItineraryFailed
                       ELSE ResponseText("generate_itinerary"))

PlanningReturned ==
    \/ RealTrip /\ planning_output # NoneVal
    \/ entry = "process" /\ pc = "done" /\ DirectAgent = "planning"
PlanningStageResult == IF entry = "process" THEN result ELSE planning_output

\* C15: in the Planning stage, on real agents, the optimize-logistics request
\* is built from the result of generate-itinerary (its sentinel when that
\* sub-call failed), the analyze-costs request is built from the result of
\* optimize-logistics, and the itinerary of the Planning StageResult, which
\* plan_trip forwards to Personalization, is the optimize-logistics result
\* and not the raw generated itinerary.
C15_PlanningDataFlow ==
    ~patched =>
        /\ Issued("optimize_logistics") =>
              /\ sub.itinerary = Generated
              /\ PromptOf("optimize_logistics").itinerary = JsonDumps(Generated)
        /\ Issued("analyze_costs") =>
              /\ sub.optimized_itinerary.key = "optimized_itinerary"
              /\ PromptOf("analyze_costs").itinerary = JsonDumps(sub.optimized_itinerary)
        /\ PlanningReturned =>
              /\ Issued("analyze_costs")
              /\ PlanningStageResult.itinerary = sub.optimized_itinerary
              /\ PlanningStageResult.itinerary # Generated
        /\ (RealTrip /\ personalization_input # NoneVal) =>
              personalization_input.itinerary = sub.optimized_itinerary

C15_Witness ==
    /\ RealTrip
    /\ failed = {"generate_itinerary"}
    /\ personalization_input # NoneVal
    /\ PromptOf("optimize_logistics").itinerary = JsonDumps(Dict1("itinerary", ItineraryFailed))
    /\ personalization_input.itinerary =
          Dict1("optimized_itinerary", ResponseText("optimize_logistics"))


\* C16: when every provider call returns or fails, a plan_trip run on real
\* agents with valid constraints eventually returns a CompositeResult, all
\* three stages having returned.
C16_ValidTripReturns ==
    (RealTrip /\ ConstraintsValid(constraints))
        ~> (/\ pc = "done"
            /\ DOMAIN result = ResultKeys
            /\ \A a \in Agents : ReturnedBefore(a, Len(stage_log) + 1))

C16_Witness ==
    /\ TripDone /\ ConstraintsValid(constraints)
    /\ DOMAIN result = ResultKeys
    /\ failed = {"synthesis", "analyze_costs"}
    /\ Len(stage_log) = 6


PersonalizationReturned ==
    \/ TripDone
    \/ entry = "process" /\ pc = "done" /\ DirectAgent = "personalization"
PersonalizationStageResult ==
    IF entry = "process" THEN result ELSE personalization_output

\* C17: on real agents, a failed optimize-logistics, personalize or
\* contextual-recommendations sub-call yields the itinerary it was given,
\* unchanged, under its own output key, and not a sentinel string; so when
\* both Personalization sub-calls failed personalized_itinerary holds the
\* Planning stage's itinerary unmodified, and when optimize-logistics failed
\* the Planning itinerary holds the generate-itinerary result unmodified.
C17_FallbackWrapsInput ==
    ~patched =>
        /\ "optimize_logistics" \in failed =>
              /\ sub.optimized_itinerary = Dict1("optimized_itinerary", sub.itinerary)
              /\ sub.itinerary = Generated
              /\ PlanningReturned =>
                    PlanningStageResult.itinerary = Dict1("optimized_itinerary", Generated)
        /\ "personalize" \in failed =>
              sub.personalized = Dict1("personalized", input_data.itinerary)
        /\ "contextual_recommendations" \in failed =>
              sub.enhanced = Dict1("enhanced_itinerary", sub.personalized)
        /\ ({"personalize", "contextual_recommendations"} \subseteq failed
              /\ PersonalizationReturned) =>
              /\ PersonalizationStageResult.personalized_itinerary =
                    Dict1("enhanced_itinerary", Dict1("personalized", input_data.itinerary))
              /\ RealTrip => input_data.itinerary = planning_output.itinerary

C17_Witness ==
    /\ TripDone
    /\ failed = {"optimize_logistics", "personalize", "contextual_recommendations"}
    /\ planning_output.itinerary =
          Dict1("optimized_itinerary", Dict1("itinerary", ResponseText("generate_itinerary")))
    /\ result.personalization_output.personalized_itinerary =
          Dict1("enhanced_itinerary", Dict1("personalized", planning_output.itinerary))


\* process of agent a returns its StageResult in this step.
ProcessReturns(a) ==
    ~patched /\ stage = a /\ stage' = "none" /\ raised' = "none"

\* C18: every agent starts with processing_time 0; when an agent's own
\* process returns, the StageResult carries the processing_time recorded
\* before the call (the duration of the agent's previous completed call) and
\* only then the agent's field is set to this call's duration; no other
\* step changes a recorded processing_time, in particular not a process call
\* that raises.
C18_StaleProcessingTime ==
    /\ \A a \in Agents : processing_time[a] = 0
    /\ [][/\ \A a \in Agents :
                ProcessReturns(a) =>
                    /\ ret'.processing_time = processing_time[a]
                    /\ processing_time'[a] = now' - start_time
                    /\ \A b \in Agents \ {a} : processing_time'[b] = processing_time[b]
          /\ (raised' # "none" /\ raised = "none") => processing_time' = processing_time
          /\ processing_time' # processing_time => \E a \in Agents : ProcessReturns(a)]_vars

C18_Witness ==
    /\ entry = "process" /\ pc = "done" /\ calls = 2
    /\ DirectAgent = "research"
    /\ result.processing_time = 1
    /\ processing_time["research"] = 0

====
